---- MODULE Spec2Model ----
(***************************************************************************)
(* A model of the Conv2D layer (src/layers/convolution2d.py) and of the    *)
(* gradient-descent optimizer GD (src/optimizers/gradientdescent.py).      *)
(*                                                                         *)
(* Python values are modelled as follows.                                  *)
(*   - a numpy array is [kind |-> "ndarray", shape, data], data a function *)
(*     from the index tuples of shape (0-based) to integers; floating      *)
(*     point values are modelled by integers;                              *)
(*   - a Python int that the code later treats as an array is              *)
(*     [kind |-> "int", v];                                                *)
(*   - a call returns [status, value, self, args]: status is "ok" or the   *)
(*     name of the exception raised, value the returned value, self the    *)
(*     receiver as the call leaves it, args the caller's argument objects  *)
(*     as the call leaves them.                                            *)
(***************************************************************************)
EXTENDS Integers, Sequences, FiniteSets, TLC

VARIABLES layer, opt, call, out

vars == <<layer, opt, call, out>>

(***************************** bounds **************************************)
MaxDim == 3
MaxKernel == 2
MaxStride == 2
MaxPad == 1
MaxChan == 2
MaxBatch == 1
MaxLR == 2

(************************** Python values **********************************)
Max(a, b) == IF a >= b THEN a ELSE b
Min(a, b) == IF a <= b THEN a ELSE b

RECURSIVE Idx(_)
Idx(shape) ==
    IF shape = <<>> THEN {<<>>}
    ELSE {<<i>> \o r : i \in 0..(shape[1] - 1), r \in Idx(Tail(shape))}

NdArray(shape, data) == [kind |-> "ndarray", shape |-> shape, data |-> data]

PyInt(n) == [kind |-> "int", v |-> n]

Zeros(shape) == NdArray(shape, [idx \in Idx(shape) |-> 0])
Ones(shape) == NdArray(shape, [idx \in Idx(shape) |-> 1])

RECURSIVE SumOver(_, _)
SumOver(S, f) ==
    IF S = {} THEN 0
    ELSE LET e == CHOOSE e \in S : TRUE IN f[e] + SumOver(S \ {e}, f)

Ret(status, value, self, args) ==
    [status |-> status, value |-> value, self |-> self, args |-> args]

Raise(exc, self, args) == Ret(exc, <<>>, self, args)

(* int(a / b) of Python: true division, then truncation toward zero. *)
TruncDiv(a, b) ==
    LET q == (IF a >= 0 THEN a ELSE -a) \div (IF b >= 0 THEN b ELSE -b)
    IN  IF (a >= 0) = (b >= 0) THEN q ELSE -q

(* numpy broadcasting of two shapes, aligned on their trailing axes. *)
LeftPad(shape, n) == [k \in 1..n |->
    IF k <= n - Len(shape) THEN 1 ELSE shape[k - (n - Len(shape))]]

Broadcastable(s1, s2) ==
    LET n == Max(Len(s1), Len(s2)) IN
    \A k \in 1..n :
        LET a == LeftPad(s1, n)[k]
            b == LeftPad(s2, n)[k]
        IN  a = b \/ a = 1 \/ b = 1

BroadcastShape(s1, s2) ==
    LET n == Max(Len(s1), Len(s2)) IN
    [k \in 1..n |->
        LET a == LeftPad(s1, n)[k]
            b == LeftPad(s2, n)[k]
        IN  IF a = 1 THEN b ELSE a]

(* the index of an operand of shape `shape` that result index idx reads *)
Project(idx, shape) ==
    [k \in 1..Len(shape) |->
        IF shape[k] = 1 THEN 0 ELSE idx[k + (Len(idx) - Len(shape))]]

At(A, idx) == A.data[Project(idx, A.shape)]

(* A[..., c]: the last axis fixed at c; an int is not subscriptable *)
LastAxis(A, c) ==
    IF A.kind = "int" THEN Raise("TypeError", <<>>, <<>>)
    ELSE LET n == Len(A.shape) IN
         IF c >= A.shape[n] THEN Raise("IndexError", <<>>, <<>>)
         ELSE Ret("ok",
                  [kind |-> "ndarray",
                   shape |-> SubSeq(A.shape, 1, n - 1),
                   data |-> [idx \in Idx(SubSeq(A.shape, 1, n - 1)) |->
                                A.data[idx \o <<c>>]]],
                  <<>>, <<>>)

(* np.zeros_like: of an int it is a 0-dimensional array *)
zeros_like(A) == IF A.kind = "int" THEN Zeros(<<>>) ELSE Zeros(A.shape)

(**************************** Conv2D ***************************************)
Scalar(n) == [isint |-> TRUE, h |-> n, w |-> n]
Pair(a, b) == [isint |-> FALSE, h |-> a, w |-> b]

InitMethods == {"random", "xavier", "he"}

(* what the random generator delivers, for an index of the kernel *)
Samples == {"diag", "ones"}
Sample(s, idx) ==
    IF s = "diag" THEN (IF idx[1] = idx[2] THEN 1 ELSE 0) ELSE 1

initialize_weights(self, sample) ==
    IF self.initialize_method \in InitMethods
    THEN LET shape == <<self.kernel_size[1], self.kernel_size[2],
                        self.in_channels, self.out_channels>>
         IN  Ret("ok",
                 [kind |-> "ndarray", shape |-> shape,
                  data |-> [idx \in Idx(shape) |-> Sample(sample, idx)]],
                 self, <<>>)
    ELSE Raise("ValueError", self, <<>>)

initialize_bias(self) == Zeros(<<1, 1, 1, self.out_channels>>)

Conv2D_init(in_channels, out_channels, name, kernel_size, stride, padding, initialize_method, sample) ==
    LET self == [in_channels |-> in_channels,
                 out_channels |-> out_channels,
                 name |-> name,
                 initialize_method |-> initialize_method,
                 kernel_size |-> <<kernel_size.h, kernel_size.w>>,
                 stride |-> <<stride.h, stride.w>>,
                 padding |-> <<padding.h, padding.w>>]
        w == initialize_weights(self, sample)
    IN  IF w.status # "ok" THEN Raise(w.status, self, <<>>)
        ELSE Ret("ok", <<>>,
                 [in_channels |-> in_channels,
                  out_channels |-> out_channels,
                  name |-> name,
                  initialize_method |-> initialize_method,
                  kernel_size |-> <<kernel_size.h, kernel_size.w>>,
                  stride |-> <<stride.h, stride.w>>,
                  padding |-> <<padding.h, padding.w>>,
                  parameters |-> <<w.value, initialize_bias(self)>>],
                 <<>>)

target_shape(self, input_shape) ==
    IF self.stride[1] = 0 \/ self.stride[2] = 0
    THEN Raise("ZeroDivisionError", self, <<input_shape>>)
    ELSE Ret("ok",
             <<TruncDiv(input_shape[1] + 2 * self.padding[1] - self.kernel_size[1],
                        self.stride[1]) + 1,
               TruncDiv(input_shape[2] + 2 * self.padding[2] - self.kernel_size[2],
                        self.stride[2]) + 1>>,
             self, <<input_shape>>)

pad(A, padding) ==
    IF padding[1] < 0 \/ padding[2] < 0 THEN Raise("ValueError", <<>>, <<A>>)
    ELSE LET shape == <<A.shape[1], A.shape[2] + 2 * padding[1],
                        A.shape[3] + 2 * padding[2], A.shape[4]>>
         IN  Ret("ok",
                 [kind |-> "ndarray", shape |-> shape,
                  data |-> [idx \in Idx(shape) |->
                      LET r == idx[2] - padding[1]
                          c == idx[3] - padding[2]
                      IN  IF r \in 0..(A.shape[2] - 1) /\ c \in 0..(A.shape[3] - 1)
                          THEN A.data[<<idx[1], r, c, idx[4]>>]
                          ELSE 0]],
                 <<>>, <<A>>)

(* A_pad[i][h_start:h_end, w_start:w_end, :], a slice being clipped to the array *)
Slice(A_pad, i, h_start, h_end, w_start, w_end) ==
    LET Hp == A_pad.shape[2]
        Wp == A_pad.shape[3]
        shape == <<Max(0, Min(h_end, Hp) - Min(h_start, Hp)),
                   Max(0, Min(w_end, Wp) - Min(w_start, Wp)),
                   A_pad.shape[4]>>
    IN  [kind |-> "ndarray", shape |-> shape,
         data |-> [idx \in Idx(shape) |->
                      A_pad.data[<<i, h_start + idx[1], w_start + idx[2], idx[3]>>]]]

single_step_convolve(a_slic_prev, W, b) ==
    IF ~Broadcastable(a_slic_prev.shape, W.shape)
    THEN Raise("ValueError", <<>>, <<>>)
    ELSE LET shape == BroadcastShape(a_slic_prev.shape, W.shape)
             Z == [idx \in Idx(shape) |-> At(a_slic_prev, idx) * At(W, idx)]
         IN  Ret("ok", SumOver(Idx(shape), Z) + SumOver(Idx(b.shape), b.data),
                 <<>>, <<>>)

(* the element a loop over the index tuples of S reaches first *)
LexLeq(a, b) ==
    a = b \/ \E k \in 1..Len(a) : a[k] < b[k] /\ \A j \in 1..(k - 1) : a[j] = b[j]

First(S) == CHOOSE m \in S : \A o \in S : LexLeq(m, o)

(* range(n) of Python is empty for n <= 0 *)
Range(n) == 0..(n - 1)

(* lines 105-116 of forward, W being what the name W is bound to there *)
forward_loop(self, W, b, Zshape, A_prev_pad, kernel_size_h, kernel_size_w) ==
    LET cells == Idx(Zshape)
        step == [idx \in cells |->
            LET h_start == idx[2] * self.stride[1]
                h_end == h_start + kernel_size_h
                w_start == idx[3] * self.stride[2]
                w_end == w_start + kernel_size_w
                a_slice_prev == Slice(A_prev_pad, idx[1], h_start, h_end, w_start, w_end)
                Wc == LastAxis(W, idx[4])
                bc == LastAxis(b, idx[4])
            IN  IF Wc.status # "ok" THEN Wc
                ELSE IF bc.status # "ok" THEN bc
                ELSE single_step_convolve(a_slice_prev, Wc.value, bc.value)]
        failed == {idx \in cells : step[idx].status # "ok"}
    IN  IF failed # {} THEN Raise(step[First(failed)].status, <<>>, <<>>)
        ELSE Ret("ok", NdArray(Zshape, [idx \in cells |-> step[idx].value]), <<>>, <<>>)

Conv2D_forward(self, A_prev) ==
    LET W0 == self.parameters[1]
        b == self.parameters[2]
        batch_size == A_prev.shape[1]
        H_prev == A_prev.shape[2]
        W_prev == A_prev.shape[3]
        kernel_size_h == W0.shape[1]
        kernel_size_w == W0.shape[2]
        C == W0.shape[4]
        ts == target_shape(self, <<H_prev, W_prev>>)
    IN  IF ts.status # "ok" THEN Raise(ts.status, self, <<A_prev>>)
        ELSE
        LET H == ts.value[1]
            W == PyInt(ts.value[2])          \* line 102 binds the name W anew
            Zshape == <<batch_size, H, W.v, C>>
        IN  IF \E k \in 1..4 : Zshape[k] < 0 THEN Raise("ValueError", self, <<A_prev>>)
            ELSE
            LET A_prev_pad == pad(A_prev, self.padding)
            IN  IF A_prev_pad.status # "ok" THEN Raise(A_prev_pad.status, self, <<A_prev>>)
                ELSE
                LET Z == forward_loop(self, W, b, Zshape, A_prev_pad.value,
                                      kernel_size_h, kernel_size_w)
                IN  Ret(Z.status, Z.value, self, <<A_prev>>)

(* x[p:-p] of a length n: the number of elements the slice keeps *)
CropLen(n, p) == IF p = 0 THEN 0 ELSE Max(0, n - 2 * p)

(* an array of shape src can be added or assigned into one of shape dst *)
FitsInto(src, dst) ==
    /\ Len(src) <= Len(dst)
    /\ \A k \in 1..Len(src) :
          LET d == dst[k + (Len(dst) - Len(src))]
          IN  src[k] = d \/ src[k] = 1

(* lines 144-154 of backward for batch element i, W being what the name W is
   bound to there: the status of the loops and what they add up *)
backward_loop(self, W, b, dZ, A_prev_pad, i, H, Wout, C, kernel_size_h, kernel_size_w) ==
    LET cells == {<<h, w, c>> : h \in Range(H), w \in Range(Wout), c \in Range(C)}
        hs(cell) == cell[1] * self.stride[1]
        ws(cell) == cell[2] * self.stride[2]
        a_slice(cell) == Slice(A_prev_pad, i, hs(cell), hs(cell) + kernel_size_h,
                               ws(cell), ws(cell) + kernel_size_w)
        step == [cell \in cells |->
            LET Wc == LastAxis(W, cell[3])
            IN  IF Wc.status # "ok" THEN Wc.status
                ELSE IF <<i, cell[1], cell[2], cell[3]>> \notin DOMAIN dZ.data
                     THEN "IndexError"
                ELSE IF ~FitsInto(Wc.value.shape, a_slice(cell).shape) THEN "ValueError"
                ELSE IF ~FitsInto(a_slice(cell).shape, Wc.value.shape) THEN "ValueError"
                ELSE IF LastAxis(b, cell[3]).status # "ok" THEN "IndexError"
                ELSE "ok"]
        failed == {cell \in cells : step[cell] # "ok"}
        dz(cell) == dZ.data[<<i, cell[1], cell[2], cell[3]>>]
    IN  IF failed # {} THEN Raise(step[First(failed)], <<>>, <<>>)
        ELSE Ret("ok",
                 [da_prev_pad |->
                    [idx \in Idx(Tail(A_prev_pad.shape)) |->
                        LET hit == {cell \in cells :
                                      /\ idx[1] - hs(cell) \in Range(a_slice(cell).shape[1])
                                      /\ idx[2] - ws(cell) \in Range(a_slice(cell).shape[2])}
                        IN  SumOver(hit, [cell \in hit |->
                                At(LastAxis(W, cell[3]).value,
                                   <<idx[1] - hs(cell), idx[2] - ws(cell), idx[3]>>)
                                * dz(cell)])],
                  dW |->
                    [idx \in Idx(zeros_like(W).shape) |->
                        LET hit == {cell \in cells : cell[3] = idx[4]}
                        IN  SumOver(hit, [cell \in hit |->
                                At(a_slice(cell), <<idx[1], idx[2], idx[3]>>) * dz(cell)])],
                  db |->
                    [idx \in Idx(b.shape) |->
                        LET hit == {cell \in cells : cell[3] = idx[4]}
                        IN  SumOver(hit, [cell \in hit |-> dz(cell)])]],
                 <<>>, <<>>)

Conv2D_backward(self, dZ, A_prev) ==
    LET W0 == self.parameters[1]
        b == self.parameters[2]
        batch_size == A_prev.shape[1]
        H_prev == A_prev.shape[2]
        W_prev == A_prev.shape[3]
        kernel_size_h == W0.shape[1]
        kernel_size_w == W0.shape[2]
        C == W0.shape[4]
        padding_h == self.padding[1]
        padding_w == self.padding[2]
        ts == target_shape(self, <<H_prev, W_prev>>)
        args == <<dZ, A_prev>>
    IN  IF ts.status # "ok" THEN Raise(ts.status, self, args)
        ELSE
        LET H == ts.value[1]
            W == PyInt(ts.value[2])          \* line 135 binds the name W anew
            dA_prev == zeros_like(A_prev)
            dW == zeros_like(W)
            db == zeros_like(b)
            A_prev_pad == pad(A_prev, <<padding_h, padding_w>>)
            dA_prev_pad == pad(dA_prev, <<padding_h, padding_w>>)
        IN  IF A_prev_pad.status # "ok" THEN Raise(A_prev_pad.status, self, args)
            ELSE
            LET loop == [i \in Range(batch_size) |->
                    backward_loop(self, W, b, dZ, A_prev_pad.value, i, H, W.v, C,
                                  kernel_size_h, kernel_size_w)]
                \* line 155: da_prev_pad[padding_h:-padding_h, padding_w:-padding_w, :]
                crop == <<CropLen(dA_prev_pad.value.shape[2], padding_h),
                          CropLen(dA_prev_pad.value.shape[3], padding_w),
                          dA_prev_pad.value.shape[4]>>
                status == [i \in Range(batch_size) |->
                    IF loop[i].status # "ok" THEN loop[i].status
                    ELSE IF ~FitsInto(crop, Tail(dA_prev.shape)) THEN "ValueError"
                    ELSE "ok"]
                failed == {i \in Range(batch_size) : status[i] # "ok"}
            IN  IF failed # {}
                THEN Raise(status[CHOOSE i \in failed : \A j \in failed : i <= j], self, args)
                ELSE Ret("ok",
                         <<NdArray(dA_prev.shape, [idx \in Idx(dA_prev.shape) |->
                               At(NdArray(crop,
                                     [c \in Idx(crop) |->
                                         loop[idx[1]].value.da_prev_pad[
                                            <<c[1] + padding_h, c[2] + padding_w, c[3]>>]]),
                                  Tail(idx))]),
                           <<NdArray(dW.shape, [idx \in Idx(dW.shape) |->
                                 SumOver(Range(batch_size),
                                    [i \in Range(batch_size) |-> loop[i].value.dW[idx]])]),
                             NdArray(db.shape, [idx \in Idx(db.shape) |->
                                 SumOver(Range(batch_size),
                                    [i \in Range(batch_size) |-> loop[i].value.db[idx]])])>>>>,
                         self, args)

(******************************* GD *****************************************)
(* the one Conv2D object of the model; a registry entry refers to it *)
TheLayer == "layer"

GD_init(layers_list, learning_rate) ==
    [learning_rate |-> learning_rate, layers |-> layers_list]

(* p - learning_rate * g of numpy, the operands broadcast against each other *)
Descend(p, learning_rate, g) ==
    LET shape == BroadcastShape(p.shape, g.shape)
    IN  NdArray(shape, [idx \in Idx(shape) |-> At(p, idx) - learning_rate * At(g, idx)])

(* GD.update adding the step where it is to subtract it *)
GD_update_ascending(self, obj, grads, name, epoch) ==
    IF name \notin DOMAIN self.layers THEN Raise("KeyError", obj, <<grads, name, epoch>>)
    ELSE Ret("ok",
             [k \in 1..Len(grads) |->
                 Descend(obj.parameters[k], -self.learning_rate, grads[k])],
             obj, <<grads, name, epoch>>)

(* GD.update writing the step into the layer's own arrays (parameter -= ...) *)
GD_update_in_place(self, obj, grads, name, epoch) ==
    IF name \notin DOMAIN self.layers THEN Raise("KeyError", obj, <<grads, name, epoch>>)
    ELSE LET params == [k \in 1..Len(grads) |->
                 Descend(obj.parameters[k], self.learning_rate, grads[k])]
         IN  Ret("ok", params, [obj EXCEPT !.parameters = params], <<grads, name, epoch>>)

(* obj is the object the registry's entries refer to, as it is at the call *)
GD_update(self, obj, grads, name, epoch) ==
    LET args == <<grads, name, epoch>> IN
    IF name \notin DOMAIN self.layers THEN Raise("KeyError", obj, args)
    ELSE
    LET lay == obj
        step == [k \in 1..Len(grads) |->
            IF k > Len(lay.parameters) THEN "IndexError"
            ELSE IF ~Broadcastable(lay.parameters[k].shape, grads[k].shape)
                 THEN "ValueError"
            ELSE "ok"]
        failed == {k \in 1..Len(grads) : step[k] # "ok"}
    IN  IF failed # {}
        THEN Raise(step[CHOOSE k \in failed : \A j \in failed : k <= j], obj, args)
        ELSE Ret("ok",
                 [k \in 1..Len(grads) |->
                     Descend(lay.parameters[k], self.learning_rate, grads[k])],
                 obj, args)

(* a call of optimizer.update with positional arguments: update takes grads,
   name and epoch, none of them optional *)
GD_update_call(self, obj, positional) ==
    IF Len(positional) # 3 THEN Raise("TypeError", obj, positional)
    ELSE GD_update(self, obj, positional[1], positional[2], positional[3])

(* update_parameters keeping the gradients as the parameters *)
update_parameters_keeps_grads(self, optimizer, grads) ==
    Ret("ok", <<>>, [self EXCEPT !.parameters = grads], <<grads>>)

update_parameters(self, optimizer, grads) ==
    LET r == GD_update_call(optimizer, self, <<grads, self.name>>)
    IN  IF r.status # "ok" THEN Raise(r.status, self, <<grads>>)
        ELSE Ret("ok", <<>>, [self EXCEPT !.parameters = r.value], <<grads>>)

(****************************** inputs *************************************)
Names == {"conv1", "conv2"}

KernelArgs ==
    {Scalar(k) : k \in 1..MaxKernel} \cup {Pair(1, MaxKernel), Pair(MaxKernel, 1)}

StrideArgs ==
    {Scalar(k) : k \in 0..MaxStride} \cup {Pair(1, MaxStride), Pair(MaxStride, 1)}

PadArgs ==
    {Scalar(k) : k \in (-1)..MaxPad} \cup {Pair(0, MaxPad), Pair(MaxPad, 0)}

(* the constructions explored: those that differ in at most two arguments from
   Conv2D(1, 1, "conv1", kernel_size, stride=1, padding=0) under GD(lr=1) *)
BaseConfig ==
    [in_channels |-> 1, out_channels |-> 1, kernel_size |-> Scalar(MaxKernel),
     stride |-> Scalar(1), padding |-> Scalar(0), initialize_method |-> "random",
     sample |-> "diag", learning_rate |-> 1, registered |-> TRUE]

Configs ==
    {c \in [in_channels : 1..MaxChan, out_channels : 1..MaxChan,
            kernel_size : KernelArgs, stride : StrideArgs, padding : PadArgs,
            initialize_method : InitMethods \cup {"bogus"}, sample : Samples,
            learning_rate : 1..MaxLR, registered : BOOLEAN] :
        Cardinality({f \in DOMAIN c : c[f] # BaseConfig[f]}) <= 2}

(* an optimizer's registry: the layer under its name, or no layer at all *)
Registry(name, registered) ==
    IF registered THEN [n \in {name} |-> TheLayer] ELSE [n \in {} |-> TheLayer]

(* the inputs explored: those that differ in the batch size, in the spatial
   extent or in the channels from one MaxDim x MaxDim image of one channel *)
Spatial == {<<d, d>> : d \in 1..MaxDim} \cup {<<1, MaxDim>>, <<MaxDim, 1>>}

Varied(shape) ==
    (IF shape[1] # 1 THEN 1 ELSE 0)
    + (IF <<shape[2], shape[3]>> # <<MaxDim, MaxDim>> THEN 1 ELSE 0)
    + (IF shape[4] # 1 THEN 1 ELSE 0)

InputShapes ==
    {s \in {<<B, hw[1], hw[2], C>> : B \in 0..MaxBatch, hw \in Spatial, C \in 1..MaxChan} :
        Varied(s) <= 1}

Activations == {Ones(shape) : shape \in InputShapes}

(* an output gradient for input A_prev: of the shape forward gives its output
   where there is one, all ones *)
OutputGradient(self, A_prev) ==
    LET ts == target_shape(self, <<A_prev.shape[2], A_prev.shape[3]>>)
    IN  IF ts.status = "ok"
        THEN Ones(<<A_prev.shape[1], Max(ts.value[1], 0), Max(ts.value[2], 0),
                    self.out_channels>>)
        ELSE Ones(<<A_prev.shape[1], 1, 1, self.out_channels>>)

(* gradient bundles a caller builds: of the parameters' shapes *)
Bundles(self) ==
    {<<Ones(self.parameters[1].shape), Ones(self.parameters[2].shape)>>,
     <<Zeros(self.parameters[1].shape), Ones(self.parameters[2].shape)>>}

(***************************** the machine *********************************)
Called(op, args) == [op |-> op, args |-> args, pre |-> layer.parameters]

Returned(r) == [status |-> r.status, value |-> r.value, args |-> r.args]

Init ==
    \E c \in Configs :
        LET r == Conv2D_init(c.in_channels, c.out_channels, "conv1", c.kernel_size,
                             c.stride, c.padding, c.initialize_method, c.sample)
        IN  /\ r.status = "ok"
            /\ layer = r.self
            /\ opt = GD_init(Registry("conv1", c.registered), c.learning_rate)
            /\ call = [op |-> "__init__", args |-> <<>>, pre |-> r.self.parameters]
            /\ out = Returned(r)

TargetShape ==
    \E H \in 0..MaxDim, W \in 0..MaxDim :
        LET r == target_shape(layer, <<H, W>>)
        IN  /\ W \in {H, MaxDim}
            /\ call' = Called("target_shape", <<<<H, W>>>>)
            /\ out' = Returned(r)
            /\ layer' = r.self
            /\ UNCHANGED opt

Forward ==
    \E A_prev \in Activations :
        LET r == Conv2D_forward(layer, A_prev)
        IN  /\ call' = Called("forward", <<A_prev>>)
            /\ out' = Returned(r)
            /\ layer' = r.self
            /\ UNCHANGED opt

Backward ==
    \E A_prev \in Activations :
        LET dZ == OutputGradient(layer, A_prev)
            r == Conv2D_backward(layer, dZ, A_prev)
        IN  /\ call' = Called("backward", <<dZ, A_prev>>)
            /\ out' = Returned(r)
            /\ layer' = r.self
            /\ UNCHANGED opt

(* the gradients are the bundle the last call returned, if it was backward,
   or a bundle the caller built *)
UpdateParameters ==
    \E grads \in Bundles(layer) \cup
                 (IF call.op = "backward" /\ out.status = "ok" THEN {out.value[2]} ELSE {}) :
        LET r == update_parameters(layer, opt, grads)
        IN  /\ call' = Called("update_parameters", <<grads>>)
            /\ out' = Returned(r)
            /\ layer' = r.self
            /\ UNCHANGED opt

GDUpdate ==
    \E grads \in Bundles(layer), name \in Names, epoch \in 0..1 :
        LET r == GD_update(opt, layer, grads, name, epoch)
        IN  /\ call' = Called("GD.update", <<grads, name, epoch>>)
            /\ out' = Returned(r)
            /\ layer' = r.self
            /\ UNCHANGED opt

Next == TargetShape \/ Forward \/ Backward \/ UpdateParameters \/ GDUpdate

Spec == Init /\ [][Next]_vars

(******************** what the claims speak of ******************************)
Kernel == call.pre[1]
Bias == call.pre[2]

ValidLayer ==
    /\ layer.kernel_size[1] >= 1 /\ layer.kernel_size[2] >= 1
    /\ layer.stride[1] >= 1 /\ layer.stride[2] >= 1
    /\ layer.padding[1] >= 0 /\ layer.padding[2] >= 0

(* the zero-padded input at row r and column q of the padded frame *)
PaddedInput(A, i, r, q, ci) ==
    LET y == r - layer.padding[1]
        x == q - layer.padding[2]
    IN  IF y \in 0..(A.shape[2] - 1) /\ x \in 0..(A.shape[3] - 1)
        THEN A.data[<<i, y, x, ci>>]
        ELSE 0

KernelCells == {<<kh, kw, ci>> : kh \in 0..(layer.kernel_size[1] - 1), kw \in 0..(layer.kernel_size[2] - 1), ci \in 0..(layer.in_channels - 1)}

Convolution(A, i, h, w, c) ==
    Bias.data[<<0, 0, 0, c>>]
    + SumOver(KernelCells, [k \in KernelCells |->
          PaddedInput(A, i, h * layer.stride[1] + k[1], w * layer.stride[2] + k[2], k[3])
          * Kernel.data[<<k[1], k[2], k[3], c>>]])

(* floor((in_dim + 2 pad - kernel) / stride) + 1, per axis *)
FloorShape(H, W) ==
    <<((H + 2 * layer.padding[1] - layer.kernel_size[1]) \div layer.stride[1]) + 1,
      ((W + 2 * layer.padding[2] - layer.kernel_size[2]) \div layer.stride[2]) + 1>>

(* the end-to-end scenario: one 3x3 image of ones, kernel [[1,0],[0,1]], bias 0,
   stride 1, no padding *)
Scenario(A) ==
    /\ A = Ones(<<1, 3, 3, 1>>)
    /\ layer.kernel_size = <<2, 2>> /\ layer.stride = <<1, 1>> /\ layer.padding = <<0, 0>>
    /\ layer.in_channels = 1 /\ layer.out_channels = 1
    /\ Kernel.data = [idx \in Idx(<<2, 2, 1, 1>>) |-> IF idx[1] = idx[2] THEN 1 ELSE 0]
    /\ Bias = Zeros(<<1, 1, 1, 1>>)

(* C1: forward of a valid layer on an input of in_channels channels returns the
   tensor of shape (B,) + target_shape(H, W) + (C_out,) whose element [i,h,w,c]
   is bias[c] plus the sum of padded_input * kernel over the receptive field;
   in the end-to-end scenario that is a 2x2 tensor of 2. *)
C1_ForwardConvolves ==
    (call.op = "forward" /\ ValidLayer /\ call.args[1].shape[4] = layer.in_channels) =>
        LET A == call.args[1]
            ts == target_shape(layer, <<A.shape[2], A.shape[3]>>).value
        IN  /\ out.status = "ok"
            /\ out.value.shape = <<A.shape[1], ts[1], ts[2], layer.out_channels>>
            /\ \A idx \in DOMAIN out.value.data :
                  out.value.data[idx] = Convolution(A, idx[1], idx[2], idx[3], idx[4])
            /\ Scenario(A) => out.value.data = [idx \in Idx(<<1, 2, 2, 1>>) |-> 2]

MatchingGradient(dZ, A) ==
    LET ts == target_shape(layer, <<A.shape[2], A.shape[3]>>).value
    IN  /\ A.shape[4] = layer.in_channels
        /\ dZ.shape = <<A.shape[1], ts[1], ts[2], layer.out_channels>>

(* the padded accumulation workspace at row r and column q of the padded frame *)
Workspace(dZ, i, r, q, ci) ==
    LET hits == {p \in Idx(Tail(dZ.shape)) :
                    /\ r - p[1] * layer.stride[1] \in 0..(layer.kernel_size[1] - 1)
                    /\ q - p[2] * layer.stride[2] \in 0..(layer.kernel_size[2] - 1)}
    IN  SumOver(hits, [p \in hits |->
            Kernel.data[<<r - p[1] * layer.stride[1], q - p[2] * layer.stride[2], ci, p[3]>>]
            * dZ.data[<<i, p[1], p[2], p[3]>>]])

(* C2: backward of a valid layer, padding 0 included, returns an input gradient
   of the input's shape: the padded accumulation workspace with padding_h rows
   and padding_w columns stripped from each side. *)
C2_BackwardInputGradient ==
    (call.op = "backward" /\ ValidLayer /\ MatchingGradient(call.args[1], call.args[2])) =>
        LET dZ == call.args[1]
            A == call.args[2]
        IN  /\ out.status = "ok"
            /\ out.value[1].shape = A.shape
            /\ \A idx \in DOMAIN out.value[1].data :
                  out.value[1].data[idx] =
                      Workspace(dZ, idx[1], idx[2] + layer.padding[1],
                                idx[3] + layer.padding[2], idx[4])

(* C3: backward returns a kernel gradient of the kernel's shape and a bias
   gradient of the bias's shape, every (i,h,w,c) contributing once:
   kernel_gradient[kh,kw,ci,c] is the sum of padded_input * output_gradient over
   batch and output positions, bias_gradient[c] the sum of output_gradient; in
   the end-to-end scenario the kernel gradient is all 4 and the bias gradient 4. *)
C3_BackwardParameterGradients ==
    (call.op = "backward" /\ ValidLayer /\ MatchingGradient(call.args[1], call.args[2])) =>
        LET dZ == call.args[1]
            A == call.args[2]
            pos == Idx(SubSeq(dZ.shape, 1, 3))
        IN  /\ out.status = "ok"
            /\ out.value[2][1].shape = Kernel.shape
            /\ out.value[2][2].shape = Bias.shape
            /\ \A k \in Idx(Kernel.shape) :
                  out.value[2][1].data[k] =
                      SumOver(pos, [p \in pos |->
                          PaddedInput(A, p[1], p[2] * layer.stride[1] + k[1],
                                      p[3] * layer.stride[2] + k[2], k[3])
                          * dZ.data[p \o <<k[4]>>]])
            /\ \A k \in Idx(Bias.shape) :
                  out.value[2][2].data[k] =
                      SumOver(pos, [p \in pos |-> dZ.data[p \o <<k[4]>>]])
            /\ (Scenario(A) /\ dZ = Ones(<<1, 2, 2, 1>>)) =>
                  /\ out.value[2][1].data = [k \in Idx(<<2, 2, 1, 1>>) |-> 4]
                  /\ out.value[2][2].data = [k \in Idx(<<1, 1, 1, 1>>) |-> 4]

ParameterShaped(grads) ==
    /\ Len(grads) = 2
    /\ \A k \in 1..2 : grads[k].shape = call.pre[k].shape

(* parameter - lr * gradient, element by element *)
IsDescent(new, old, grads) ==
    /\ Len(new) = 2
    /\ \A k \in 1..2 :
          /\ new[k].shape = old[k].shape
          /\ \A idx \in Idx(old[k].shape) :
                new[k].data[idx] = old[k].data[idx] - opt.learning_rate * grads[k].data[idx]

(* C4: update_parameters of a layer registered under its name completes and
   leaves the layer with (kernel_old - lr*gK, bias_old - lr*gB). *)
C4_UpdateParametersStores ==
    (/\ call.op = "update_parameters"
     /\ layer.name \in DOMAIN opt.layers
     /\ ParameterShaped(call.args[1])) =>
        /\ out.status = "ok"
        /\ IsDescent(layer.parameters, call.pre, call.args[1])

(* C5: GD.update for a registered name returns [p0 - lr*g0, p1 - lr*g1] of the
   layer's parameters as they are at the call, whatever the epoch; for an
   unregistered name it fails with a not-found error. *)
C5_GradientDescentLaw ==
    call.op = "GD.update" =>
        IF call.args[2] \in DOMAIN opt.layers
        THEN ParameterShaped(call.args[1]) =>
                /\ out.status = "ok"
                /\ IsDescent(out.value, call.pre, call.args[1])
        ELSE out.status = "KeyError"

C5_Witness ==
    /\ call.op = "GD.update"
    /\ out.status = "ok"
    /\ opt.learning_rate > 1
    /\ call.args[3] > 0
    /\ out.value[1] # call.pre[1]

(* C6: target_shape is floor((in_dim + 2*pad - kernel) / stride) + 1 on each
   axis, with the floor rounding toward minus infinity, and forward's output
   has these dimensions. *)
C6_TargetShapeFloor ==
    /\ (call.op = "target_shape" /\ ValidLayer) =>
          /\ out.status = "ok"
          /\ out.value = FloorShape(call.args[1][1], call.args[1][2])
    /\ (call.op = "forward" /\ ValidLayer /\ out.status = "ok") =>
          <<out.value.shape[2], out.value.shape[3]>> =
              FloorShape(call.args[1].shape[2], call.args[1].shape[3])

(* C7: forward of an input whose channel count is not in_channels fails; it
   never returns an output tensor. *)
C7_ChannelMismatchRejected ==
    (call.op = "forward" /\ call.args[1].shape[4] # layer.in_channels) =>
        out.status # "ok"

(* C8: every constructed layer has stride components >= 1 and padding
   components >= 0, a construction with others being rejected. *)
C8_ConstructionValidates ==
    /\ layer.stride[1] >= 1 /\ layer.stride[2] >= 1
    /\ layer.padding[1] >= 0 /\ layer.padding[2] >= 0

(* C9: whatever was called, the layer's parameters are a pair (kernel, bias) of
   shapes (kernel_h, kernel_w, in_channels, out_channels) and
   (1, 1, 1, out_channels). *)
C9_ParameterShapes ==
    /\ Len(layer.parameters) = 2
    /\ layer.parameters[1].shape =
          <<layer.kernel_size[1], layer.kernel_size[2], layer.in_channels, layer.out_channels>>
    /\ layer.parameters[2].shape = <<1, 1, 1, layer.out_channels>>

(* update_parameters was called with the bundle backward returned: its kernel
   gradient is the 0-dimensional array only backward builds *)
C9_Witness ==
    /\ call.op = "update_parameters"
    /\ call.args[1][1].shape = <<>>

(* C10: forward, backward, target_shape and GD.update leave the layer's kernel
   and bias and the caller's tensors as they were at the call, whether they
   return or fail. *)
C10_OnlyUpdateParametersMutates ==
    call.op \in {"forward", "backward", "target_shape", "GD.update"} =>
        /\ layer.parameters = call.pre
        /\ out.args = call.args

(* GD.update returned parameters other than the layer's, and the layer and
   the gradients are as they were *)
C10_Witness ==
    /\ call.op = "GD.update"
    /\ out.status = "ok"
    /\ out.value # call.pre
    /\ layer.parameters = call.pre

====
